---- MODULE Spec2Model ----
(***************************************************************************)
(* A model of ProductionNormalizer (src/poc_normalizer.py): the per-field  *)
(* type conversions, the three mapping passes of _normalize_single_log,    *)
(* the batch loop normalize_logs with its statistics, and get_statistics.  *)
(*                                                                         *)
(* Representation of Python data:                                          *)
(*   - a string VALUE is the sequence of its characters, <<"4","4","3">>;  *)
(*   - a dictionary KEY (a field name) is the sequence of its '.'-free     *)
(*     segments, "user.name" = <<"user","name">>, "a" = <<"a">>; this is   *)
(*     one-to-one with strings, and str.split('.') reads the segments off; *)
(*   - a dict is the sequence of its <<key, value>> items in insertion     *)
(*     order, keys distinct;                                               *)
(*   - a value carries its Python type in the field t.                     *)
(***************************************************************************)
EXTENDS Integers, Sequences, FiniteSets, TLC

----------------------------------------------------------------------------
(* Python values *)

VNone == [t |-> "null"]
VStr(s) == [t |-> "str", s |-> s]
VInt(n) == [t |-> "int", n |-> n]
VBool(b) == [t |-> "bool", b |-> b]
\* a float: finite (m tenths), or one of the two non-finite values json.load
\* produces for Infinity and NaN
VFloat(m) == [t |-> "float", c |-> "fin", m |-> m]
VInf == [t |-> "float", c |-> "inf", m |-> 0]
VNaN == [t |-> "float", c |-> "nan", m |-> 0]
VDict(kv) == [t |-> "dict", kv |-> kv]
VList(el) == [t |-> "list", el |-> el]

\* a field name without a dot
K(name) == <<name>>

\* an exception leaving a call
Raise(exc) == [t |-> "raise", exc |-> exc]
IsRaise(r) == r.t = "raise"

\* isinstance(value, dict)
IsDict(v) == v.t = "dict"

\* hash(value) succeeds: lists and dicts are unhashable
Hashable(v) == v.t \notin {"dict", "list"}

\* bool(value): the truth value Python's `not value` negates
Truthy(v) ==
    CASE v.t = "null" -> FALSE
      [] v.t = "bool" -> v.b
      [] v.t = "int" -> v.n # 0
      [] v.t = "float" -> ~(v.c = "fin" /\ v.m = 0)
      [] v.t = "str" -> v.s # <<>>
      [] v.t = "dict" -> v.kv # <<>>
      [] v.t = "list" -> v.el # <<>>

----------------------------------------------------------------------------
(* dict operations on the item sequence *)

HasKey(d, k) == \E i \in 1..Len(d) : d[i][1] = k
GetItem(d, k) == d[CHOOSE i \in 1..Len(d) : d[i][1] = k][2]
\* d[k] = v: an existing key keeps its position, a new key goes last
SetItem(d, k, v) ==
    IF HasKey(d, k)
    THEN [i \in 1..Len(d) |-> IF d[i][1] = k THEN <<k, v>> ELSE d[i]]
    ELSE Append(d, <<k, v>>)
DictKeys(d) == {d[i][1] : i \in 1..Len(d)}

----------------------------------------------------------------------------
(* str methods *)

Whitespace == {" ", "\t", "\n", "\r"}

RECURSIVE LStrip(_)
LStrip(s) == IF s # <<>> /\ Head(s) \in Whitespace THEN LStrip(Tail(s)) ELSE s

RECURSIVE RStrip(_)
RStrip(s) ==
    IF s # <<>> /\ s[Len(s)] \in Whitespace
    THEN RStrip(SubSeq(s, 1, Len(s) - 1))
    ELSE s

\* str.strip()
Strip(s) == RStrip(LStrip(s))

UpperCase == <<"A", "B", "C", "D", "E", "F", "G", "H", "I", "J", "K", "L", "M",
               "N", "O", "P", "Q", "R", "S", "T", "U", "V", "W", "X", "Y", "Z">>
LowerCase == <<"a", "b", "c", "d", "e", "f", "g", "h", "i", "j", "k", "l", "m",
               "n", "o", "p", "q", "r", "s", "t", "u", "v", "w", "x", "y", "z">>

LowerChar(c) ==
    IF \E i \in 1..Len(UpperCase) : UpperCase[i] = c
    THEN LowerCase[CHOOSE i \in 1..Len(UpperCase) : UpperCase[i] = c]
    ELSE c

\* str.lower()
Lower(s) == [i \in 1..Len(s) |-> LowerChar(s[i])]

DigitChars == <<"0", "1", "2", "3", "4", "5", "6", "7", "8", "9">>
IsDigit(c) == \E i \in 1..Len(DigitChars) : DigitChars[i] = c
DigitVal(c) == (CHOOSE i \in 1..Len(DigitChars) : DigitChars[i] = c) - 1

RECURSIVE NatToStr(_)
NatToStr(n) ==
    IF n < 10 THEN <<DigitChars[n + 1]>>
    ELSE Append(NatToStr(n \div 10), DigitChars[(n % 10) + 1])

\* str(n) of an int
IntToStr(n) == IF n < 0 THEN <<"-">> \o NatToStr(0 - n) ELSE NatToStr(n)

RECURSIVE Repr(_)
RECURSIVE ReprItems(_)
RECURSIVE ReprElems(_)
\* the key as the string it stands for: its segments joined by '.'
RECURSIVE KeyChars(_)

\* one character per position: a segment is kept whole, which is enough for
\* the text to stay distinct per key
KeyChars(k) ==
    IF Len(k) = 1 THEN <<k[1]>> ELSE <<k[1], ".">> \o KeyChars(Tail(k))

ReprItems(kv) ==
    IF kv = <<>> THEN <<>>
    ELSE <<"'">> \o KeyChars(kv[1][1]) \o <<"'", ":", " ">> \o Repr(kv[1][2])
         \o (IF Len(kv) > 1 THEN <<",", " ">> \o ReprItems(Tail(kv)) ELSE <<>>)

ReprElems(el) ==
    IF el = <<>> THEN <<>>
    ELSE Repr(el[1])
         \o (IF Len(el) > 1 THEN <<",", " ">> \o ReprElems(Tail(el)) ELSE <<>>)

\* repr(value), which str() of a container applies to what it holds. The
\* strings of the model hold no quote or backslash, so repr quotes them as is.
Repr(v) ==
    CASE v.t = "null" -> <<"N", "o", "n", "e">>
      [] v.t = "bool" -> IF v.b THEN <<"T", "r", "u", "e">>
                         ELSE <<"F", "a", "l", "s", "e">>
      [] v.t = "int" -> IntToStr(v.n)
      [] v.t = "float" ->
           CASE v.c = "inf" -> <<"i", "n", "f">>
             [] v.c = "nan" -> <<"n", "a", "n">>
             [] OTHER ->
                  (IF v.m < 0 THEN <<"-">> ELSE <<>>)
                  \o NatToStr((IF v.m < 0 THEN 0 - v.m ELSE v.m) \div 10)
                  \o <<".">>
                  \o NatToStr((IF v.m < 0 THEN 0 - v.m ELSE v.m) % 10)
      [] v.t = "str" -> <<"'">> \o v.s \o <<"'">>
      [] v.t = "dict" -> <<"{">> \o ReprItems(v.kv) \o <<"}">>
      [] v.t = "list" -> <<"[">> \o ReprElems(v.el) \o <<"]">>

\* str(value)
PyStr(v) == IF v.t = "str" THEN v.s ELSE Repr(v)

----------------------------------------------------------------------------
(* int(value) *)

IntOk(n) == [ok |-> TRUE, n |-> n]
IntFail(exc) == [ok |-> FALSE, exc |-> exc]

\* the digits of an int literal: digits, single underscores between them
IsIntBody(s) ==
    /\ s # <<>>
    /\ IsDigit(s[1])
    /\ IsDigit(s[Len(s)])
    /\ \A i \in 1..Len(s) : IsDigit(s[i]) \/ s[i] = "_"
    /\ \A i \in 1..(Len(s) - 1) : ~(s[i] = "_" /\ s[i + 1] = "_")

RECURSIVE BodyVal(_, _)
BodyVal(s, acc) ==
    IF s = <<>> THEN acc
    ELSE IF Head(s) = "_" THEN BodyVal(Tail(s), acc)
    ELSE BodyVal(Tail(s), (10 * acc) + DigitVal(Head(s)))

\* the value of the digits `body`, negated under a minus sign
SignedVal(negative, body) ==
    IF IsIntBody(body)
    THEN IntOk(IF negative THEN 0 - BodyVal(body, 0) ELSE BodyVal(body, 0))
    ELSE IntFail("ValueError")

\* int of a stripped string u: an optional sign, then the digits
ParseStripped(u) ==
    IF u # <<>> /\ u[1] \in {"+", "-"}
    THEN SignedVal(u[1] = "-", Tail(u))
    ELSE SignedVal(FALSE, u)

\* int(s) of a string: surrounding whitespace is dropped first
ParseInt(s) == ParseStripped(Strip(s))

\* int(value): a float is truncated toward zero, a non-finite float raises
\* (OverflowError for infinity, ValueError for NaN), a value that is no
\* number or string raises TypeError
PyInt(v) ==
    CASE v.t = "str" -> ParseInt(v.s)
      [] v.t = "int" -> IntOk(v.n)
      [] v.t = "bool" -> IntOk(IF v.b THEN 1 ELSE 0)
      [] v.t = "float" ->
           CASE v.c = "inf" -> IntFail("OverflowError")
             [] v.c = "nan" -> IntFail("ValueError")
             [] OTHER -> IntOk(IF v.m < 0 THEN 0 - ((0 - v.m) \div 10)
                               ELSE v.m \div 10)
      [] OTHER -> IntFail("TypeError")

----------------------------------------------------------------------------
(* The type converters *)

\* _normalize_timestamp. A string is returned as it is whether or not it
\* matches one of the two ISO patterns (line 66 returns value, line 68
\* returns str(value), which is the same string), so the patterns decide
\* nothing; any other truthy value is returned as its str().
_normalize_timestamp(value) ==
    IF ~Truthy(value) THEN VNone
    ELSE IF value.t = "str" THEN value
    ELSE VStr(PyStr(value))

\* _normalize_ip_address: both the validated and the unvalidated branch
\* return the stripped string
_normalize_ip_address(value) ==
    IF ~Truthy(value) THEN VNone ELSE VStr(Strip(PyStr(value)))

\* lines 91-98 for the outcome r of int(value): only ValueError and
\* TypeError are caught
PortOf(r) ==
    IF r.ok
    THEN (IF 0 <= r.n /\ r.n <= 65535 THEN VInt(r.n) ELSE VNone)
    ELSE IF r.exc \in {"ValueError", "TypeError"} THEN VNone
    ELSE Raise(r.exc)

\* _normalize_port
_normalize_port(value) ==
    IF ~Truthy(value) THEN VNone ELSE PortOf(PyInt(value))

s_critical == <<"c", "r", "i", "t", "i", "c", "a", "l">>
s_high == <<"h", "i", "g", "h">>
s_medium == <<"m", "e", "d", "i", "u", "m">>
s_info == <<"i", "n", "f", "o">>
s_debug == <<"d", "e", "b", "u", "g">>
s_low == <<"l", "o", "w">>

\* the items of the severity_map literal, in the order they are written
severity_map_literal ==
    << <<<<"0">>, s_critical>>,
       <<<<"1">>, s_critical>>,
       <<<<"2">>, s_critical>>,
       <<<<"3">>, s_high>>,
       <<<<"4">>, s_medium>>,
       <<<<"5">>, s_medium>>,
       <<<<"6">>, s_info>>,
       <<<<"7">>, s_debug>>,
       <<<<"1">>, s_critical>>,
       <<<<"2">>, s_high>>,
       <<<<"3">>, s_medium>>,
       <<<<"4">>, s_info>>,
       <<<<"e", "m", "e", "r", "g", "e", "n", "c", "y">>, s_critical>>,
       <<<<"a", "l", "e", "r", "t">>, s_critical>>,
       <<<<"c", "r", "i", "t", "i", "c", "a", "l">>, s_critical>>,
       <<<<"e", "r", "r", "o", "r">>, s_high>>,
       <<<<"e", "r", "r">>, s_high>>,
       <<<<"h", "i", "g", "h">>, s_high>>,
       <<<<"w", "a", "r", "n", "i", "n", "g">>, s_medium>>,
       <<<<"w", "a", "r", "n">>, s_medium>>,
       <<<<"m", "e", "d", "i", "u", "m">>, s_medium>>,
       <<<<"n", "o", "t", "i", "c", "e">>, s_info>>,
       <<<<"i", "n", "f", "o", "r", "m", "a", "t", "i", "o", "n">>, s_info>>,
       <<<<"i", "n", "f", "o">>, s_info>>,
       <<<<"d", "e", "b", "u", "g">>, s_debug>>,
       <<<<"l", "o", "w">>, s_low>> >>

\* the positions of the literal's items whose key is s
SeverityHits(s) ==
    {i \in 1..Len(severity_map_literal) : severity_map_literal[i][1] = s}

\* the value of the last of the items at positions hits, s when there is none
LastHit(hits, s) ==
    IF hits = {} THEN s
    ELSE severity_map_literal[CHOOSE i \in hits : \A j \in hits : j <= i][2]

\* severity_map.get(s, s): of the items of a dict literal that repeat a key
\* the last one written stays
severity_map_get(s) == LastHit(SeverityHits(s), s)

\* _normalize_severity
_normalize_severity(value) ==
    IF ~Truthy(value) THEN VNone
    ELSE VStr(severity_map_get(Strip(Lower(PyStr(value)))))

true_values ==
    { <<"t", "r", "u", "e">>, <<"y", "e", "s">>, <<"1">>, <<"o", "n">>,
      <<"e", "n", "a", "b", "l", "e", "d">> }
false_values ==
    { <<"f", "a", "l", "s", "e">>, <<"n", "o">>, <<"0">>, <<"o", "f", "f">>,
      <<"d", "i", "s", "a", "b", "l", "e", "d">> }

\* lines 135-140 for val_lower
BooleanOf(val_lower) ==
    IF val_lower \in true_values THEN VBool(TRUE)
    ELSE IF val_lower \in false_values THEN VBool(FALSE)
    ELSE VNone

\* _normalize_boolean
_normalize_boolean(value) ==
    IF value.t = "bool" THEN value
    ELSE IF value.t = "str" THEN BooleanOf(Strip(Lower(value.s)))
    ELSE VNone

timestamp_fields ==
    {K("timestamp"), K("ingestion_time"), K("file_created"),
     K("file_modified"), K("file_accessed")}
ip_fields == {K("source_ip"), K("dest_ip")}
port_fields == {K("source_port"), K("dest_port")}
boolean_fields == {K("service_account")}
integer_fields ==
    {K("process_id"), K("parent_process_id"), K("logon_type"), K("priority"),
     K("file_size"), K("bytes_sent"), K("bytes_received"), K("bytes_total"),
     K("packets_sent"), K("packets_received"), K("duration"),
     K("connection_count"), K("exit_code"), K("http_status"),
     K("email_attachment_count"), K("email_size"), K("vlan_id"),
     K("vulnerability_score"), K("risk_score")}

\* lines 180-183 for the outcome r of int(value): only ValueError and
\* TypeError are caught
IntegerOf(r) ==
    IF r.ok THEN VInt(r.n)
    ELSE IF r.exc \in {"ValueError", "TypeError"} THEN VNone
    ELSE Raise(r.exc)

\* _apply_type_conversion: the converted value, or the exception that
\* leaves the call
_apply_type_conversion(field, value) ==
    IF value.t = "null" \/ value = VStr(<<>>) THEN VNone
    ELSE IF field \in timestamp_fields THEN _normalize_timestamp(value)
    ELSE IF field \in ip_fields THEN _normalize_ip_address(value)
    ELSE IF field \in port_fields THEN _normalize_port(value)
    ELSE IF field = K("severity") THEN _normalize_severity(value)
    ELSE IF field \in boolean_fields THEN _normalize_boolean(value)
    ELSE IF field \in integer_fields THEN IntegerOf(PyInt(value))
    ELSE IF Truthy(value) THEN VStr(Strip(PyStr(value))) ELSE VNone

----------------------------------------------------------------------------
(* One record: _extract_nested_field and _normalize_single_log *)

s_default == <<"d", "e", "f", "a", "u", "l", "t">>

\* datetime.utcnow().isoformat() + 'Z' read at tick c of the clock. The date
\* and time digits are folded into the tick count: the text is T<c>Z.
NowStr(c) == VStr(<<"T">> \o NatToStr(c) \o <<"Z">>)

RECURSIVE Walk(_, _)
\* the loop of _extract_nested_field over the segments still to descend
Walk(value, segs) ==
    IF segs = <<>> THEN value
    ELSE IF IsDict(value) /\ HasKey(value.kv, K(Head(segs)))
    THEN Walk(GetItem(value.kv, K(Head(segs))), Tail(segs))
    ELSE VNone

\* _extract_nested_field: field_path.split('.') is the key's segments
_extract_nested_field(log_data, field_path) == Walk(log_data, field_path)

\* dict.get(key, {}) on a mapping table; {} is the function of no key
MappingGet(mappings, source) ==
    IF source.t = "str" /\ source.s \in DOMAIN mappings
    THEN mappings[source.s]
    ELSE <<>>

\* the state of the three passes: normalized_log, processed_fields, the
\* exception that ended them ("" while none), the conversions called, and
\* normalized_log as the first and the second pass left it
PassState(log, processed, exc, calls, p1, p2) ==
    [log |-> log, processed |-> processed, exc |-> exc, calls |-> calls,
     p1 |-> p1, p2 |-> p2]

Call(field, value, result) ==
    [field |-> field, value |-> value, result |-> result]

\* lines 231-232 and 234-236 once the conversion gave normalized_value
SourceWrite(acc, raw_field, normalized_field, value, normalized_value) ==
    IF IsRaise(normalized_value)
    THEN [acc EXCEPT !.exc = normalized_value.exc,
                     !.calls = @ \cup {Call(normalized_field, value, normalized_value)}]
    ELSE [acc EXCEPT !.log = SetItem(@, normalized_field, normalized_value),
                     !.processed = @ \cup {raw_field},
                     !.calls = @ \cup {Call(normalized_field, value, normalized_value)}]

\* lines 228-236 for the value the source pass resolved; nested says the
\* raw key holds a dot
SourceResolved(acc, raw_field, normalized_field, nested, actual_value) ==
    IF nested /\ actual_value = VNone
    THEN [acc EXCEPT !.processed = @ \cup {raw_field}]
    ELSE SourceWrite(acc, raw_field, normalized_field, actual_value,
                     _apply_type_conversion(normalized_field, actual_value))

\* lines 225-236 for one item of log_data
SourceItem(log_data, source_mapping, raw_field, value, acc) ==
    IF raw_field \notin DOMAIN source_mapping THEN acc
    ELSE SourceResolved(acc, raw_field, source_mapping[raw_field],
                        Len(raw_field) > 1,
                        IF Len(raw_field) > 1
                        THEN _extract_nested_field(log_data, raw_field)
                        ELSE value)

RECURSIVE FirstPass(_, _, _, _)
\* first pass (lines 224-236), from item i of log_data on
FirstPass(log_data, source_mapping, i, acc) ==
    IF i > Len(log_data.kv) \/ acc.exc # "" THEN acc
    ELSE FirstPass(log_data, source_mapping, i + 1,
             SourceItem(log_data, source_mapping,
                        log_data.kv[i][1], log_data.kv[i][2], acc))

\* lines 244-245 with the test of line 244 left out: the default pass writes
\* whatever it resolves
DefaultWriteAlways(normalized_log, normalized_field, normalized_value) ==
    SetItem(normalized_log, normalized_field, normalized_value)

\* lines 244-245: the default pass writes a name only when it is not there
DefaultWrite(normalized_log, normalized_field, normalized_value) ==
    IF ~HasKey(normalized_log, normalized_field)
    THEN SetItem(normalized_log, normalized_field, normalized_value)
    ELSE normalized_log

\* lines 242-246 once the conversion gave normalized_value
DefaultConverted(acc, raw_field, normalized_field, value, normalized_value) ==
    IF IsRaise(normalized_value)
    THEN [acc EXCEPT !.exc = normalized_value.exc,
                     !.calls = @ \cup {Call(normalized_field, value, normalized_value)}]
    ELSE [acc EXCEPT !.log = DefaultWrite(@, normalized_field, normalized_value),
                     !.processed = @ \cup {raw_field},
                     !.calls = @ \cup {Call(normalized_field, value, normalized_value)}]

\* lines 240-246 for one item of log_data
DefaultItem(default_mapping, raw_field, value, acc) ==
    IF raw_field \notin acc.processed /\ raw_field \in DOMAIN default_mapping
    THEN DefaultConverted(acc, raw_field, default_mapping[raw_field], value,
             _apply_type_conversion(default_mapping[raw_field], value))
    ELSE acc

RECURSIVE SecondPass(_, _, _, _)
\* second pass (lines 239-246), from item i of log_data on
SecondPass(log_data, default_mapping, i, acc) ==
    IF i > Len(log_data.kv) \/ acc.exc # "" THEN acc
    ELSE SecondPass(log_data, default_mapping, i + 1,
             DefaultItem(default_mapping,
                         log_data.kv[i][1], log_data.kv[i][2], acc))

\* lines 251-252 once the conversion gave normalized_value
PassThroughWrite(acc, raw_field, value, normalized_value) ==
    IF IsRaise(normalized_value)
    THEN [acc EXCEPT !.exc = normalized_value.exc,
                     !.calls = @ \cup {Call(raw_field, value, normalized_value)}]
    ELSE [acc EXCEPT !.log = SetItem(@, raw_field, normalized_value),
                     !.calls = @ \cup {Call(raw_field, value, normalized_value)}]

\* lines 250-252 for one item of log_data
PassThroughItem(raw_field, value, acc) ==
    IF raw_field \notin acc.processed
    THEN PassThroughWrite(acc, raw_field, value,
                          _apply_type_conversion(raw_field, value))
    ELSE acc

RECURSIVE ThirdPass(_, _, _)
\* third pass (lines 249-252), from item i of log_data on
ThirdPass(log_data, i, acc) ==
    IF i > Len(log_data.kv) \/ acc.exc # "" THEN acc
    ELSE ThirdPass(log_data, i + 1,
             PassThroughItem(log_data.kv[i][1], log_data.kv[i][2], acc))

\* normalized_log as it is when the first, the second pass ends
EndFirst(acc) == [acc EXCEPT !.p1 = acc.log]
EndSecond(acc) == [acc EXCEPT !.p2 = acc.log]

\* lines 220-252: the three passes
Passes(log_data, source_mapping, default_mapping) ==
    ThirdPass(log_data, 1,
        EndSecond(SecondPass(log_data, default_mapping, 1,
            EndFirst(FirstPass(log_data, source_mapping, 1,
                PassState(<<>>, {}, "", {}, <<>>, <<>>))))))

\* line 255 with the test made on the value instead of the key: a timestamp
\* that is there but null counts as missing
TimestampFalsy(normalized_log) ==
    \/ ~HasKey(normalized_log, K("timestamp"))
    \/ ~Truthy(GetItem(normalized_log, K("timestamp")))

\* line 255: 'timestamp' not in normalized_log
NeedsTimestamp(normalized_log) == ~HasKey(normalized_log, K("timestamp"))

\* lines 259-260
WithLogSource(normalized_log, log_source) ==
    IF ~HasKey(normalized_log, K("log_source"))
    THEN SetItem(normalized_log, K("log_source"), log_source)
    ELSE normalized_log

\* line 263 guarded the way lines 255 and 259 are: a value that is already
\* there is kept
KeepIngestionTime(normalized_log, now) ==
    IF HasKey(normalized_log, K("ingestion_time")) THEN normalized_log
    ELSE SetItem(normalized_log, K("ingestion_time"), now)

\* line 263: normalized_log['ingestion_time'] = now
AddIngestionTime(normalized_log, now) ==
    SetItem(normalized_log, K("ingestion_time"), now)

NoSources == [x \in {} |-> 0]

\* lines 216-218 with the count set instead of incremented
TrackSourceOnce(sources, log_source) ==
    [x \in DOMAIN sources \cup {log_source} |->
        IF x = log_source THEN 1 ELSE sources[x]]

\* lines 216-218: stats['sources'][log_source] += 1, from 0 when new
TrackSource(sources, log_source) ==
    [x \in DOMAIN sources \cup {log_source} |->
        IF x = log_source
        THEN (IF x \in DOMAIN sources THEN sources[x] ELSE 0) + 1
        ELSE sources[x]]

\* what is recorded of one call of _normalize_single_log: its argument, how
\* far it went ("rejected", "unhashable", "raised", "done"), the resolved
\* log_source, normalized_log after each pass and the conversions called
Trace(raw, stage, log_source, p1, p2, p3, calls) ==
    [raw |-> raw, stage |-> stage, log_source |-> log_source,
     p1 |-> p1, p2 |-> p2, p3 |-> p3, calls |-> calls]

NoTrace == Trace(VNone, "none", VNone, <<>>, <<>>, <<>>, {})

\* the result of a call: the dict returned (its items) or the exception
\* raised, and the normalizer's stats, the heap and the clock after it
Outcome(ret, exc, stats, heap, clock, trace) ==
    [ret |-> ret, exc |-> exc, stats |-> stats, heap |-> heap,
     clock |-> clock, trace |-> trace]

\* lines 259-265 for normalized_log as lines 255-257 left it
Enrich(normalized_log, log_source, stats, heap, clock, trace) ==
    Outcome(AddIngestionTime(WithLogSource(normalized_log, log_source),
                             NowStr(clock)),
            "", stats, heap, clock + 1, trace)

\* lines 254-265 for the state a the passes ended in
Require(a, log_source, stats, heap, clock, trace) ==
    IF a.exc # "" THEN Outcome(<<>>, a.exc, stats, heap, clock, trace)
    ELSE IF NeedsTimestamp(a.log)
    THEN Enrich(SetItem(a.log, K("timestamp"), NowStr(clock)), log_source,
                [stats EXCEPT !.warnings = @ + 1], heap, clock + 1, trace)
    ELSE Enrich(a.log, log_source, stats, heap, clock, trace)

\* the Trace of a call whose passes ended in state a
PassTrace(log_data, log_source, a) ==
    Trace(log_data, IF a.exc # "" THEN "raised" ELSE "done", log_source,
          a.p1, a.p2, a.log, a.calls)

\* the passes done, lines 254-265
AfterPasses(log_data, log_source, a, stats, heap, clock) ==
    Require(a, log_source, stats, heap, clock,
            PassTrace(log_data, log_source, a))

\* lines 220-265: the passes and the required fields, for the mappings given
NormalizeWith(log_data, log_source, source_mapping, default_mapping, stats, heap, clock) ==
    AfterPasses(log_data, log_source,
                Passes(log_data, source_mapping, default_mapping),
                stats, heap, clock)

\* lines 209-265 for the log_source line 209 resolved: mappings.get raises
\* TypeError on a key that cannot be hashed
WithSource(log_data, log_source, mappings, stats, heap, clock) ==
    IF ~Hashable(log_source)
    THEN Outcome(<<>>, "TypeError", stats, heap, clock,
                 Trace(log_data, "unhashable", log_source, <<>>, <<>>, <<>>, {}))
    ELSE NormalizeWith(log_data, log_source,
             MappingGet(mappings, log_source),
             MappingGet(mappings, VStr(s_default)),
             stats,
             [heap EXCEPT ![stats.sources] = TrackSource(@, log_source)],
             clock)

\* _normalize_single_log
_normalize_single_log(log_data, mappings, stats, heap, clock) ==
    IF ~IsDict(log_data)
    THEN Outcome(<<>>, "", [stats EXCEPT !.errors = @ + 1], heap, clock,
                 Trace(log_data, "rejected", VNone, <<>>, <<>>, <<>>, {}))
    ELSE WithSource(log_data,
             IF HasKey(log_data.kv, K("log_source"))
             THEN GetItem(log_data.kv, K("log_source"))
             ELSE VStr(s_default),
             mappings, stats, heap, clock)

----------------------------------------------------------------------------
(* The normalizer object and its callers *)

VARIABLES
    mappings,         \* self.mappings, loaded once by __init__
    stats,            \* self.stats; its 'sources' entry is a reference
    heap,             \* the dict objects that references point to
    clock,            \* the tick datetime.utcnow() reads next
    pc,               \* "idle", or "loop" inside normalize_logs
    input_logs,       \* the argument of the running normalize_logs call
    i,                \* the position of the next entry of input_logs
    normalized_logs,  \* the list normalize_logs is building
    result,           \* what the last normalize_logs call returned
    snapshot,         \* what the last get_statistics call returned
    last,             \* the Trace of the last _normalize_single_log call
    injected,         \* how many returned records had the timestamp injected
    second            \* what normalizing result[1] a second time gave

vars == <<mappings, stats, heap, clock, pc, input_logs, i, normalized_logs,
          result, snapshot, last, injected, second>>

\* the dict object __init__ creates for stats['sources']
SourcesObj == "sources"

NoSnapshot == [taken |-> FALSE]
NoSecond == [taken |-> FALSE]

\* most entries a normalizer is given over all its normalize_logs calls
MaxRecords == 3

s_fw == <<"f", "w">>
s_t0 == <<"2", "0", "2", "4">>
s_oops == <<"o", "o", "p", "s">>

\* a mapping file: a source "fw" and the default source
BatchTable ==
    (s_fw :> (K("time") :> K("timestamp") @@ K("sev") :> K("severity")))
    @@ (s_default :> (K("ts") :> K("timestamp") @@ K("port") :> K("source_port")))

\* a mapping file with no default source
FwOnlyTable == (s_fw :> (K("time") :> K("ingestion_time")))

BatchTables == {BatchTable, FwOnlyTable}

\* the entries a batch is drawn from: one that is no object, and objects
\* with and without a timestamp, with a log_source that is a list, with a
\* port that is Infinity, and with an ingestion_time of their own
InputLogs ==
    { VStr(s_oops),
      VDict(<<>>),
      VDict(<< <<K("log_source"), VStr(s_fw)>>, <<K("time"), VStr(s_t0)>> >>),
      VDict(<< <<K("source_port"), VInf>>, <<K("ts"), VStr(s_t0)>> >>),
      VDict(<< <<K("log_source"), VList(<<VStr(s_fw)>>)>> >>),
      VDict(<< <<K("ingestion_time"), VStr(s_t0)>>, <<K("ts"), VStr(<<>>)>> >>) }

Batches == UNION {[1..n -> InputLogs] : n \in 0..MaxRecords}

\* __init__ (lines 18-28) for the mapping file given
Construct(table) ==
    /\ mappings = table
    /\ stats = [processed |-> 0, normalized |-> 0, errors |-> 0,
                warnings |-> 0, sources |-> SourcesObj]
    /\ heap = (SourcesObj :> NoSources)
    /\ clock = 0
    /\ pc = "idle"
    /\ input_logs = <<>>
    /\ i = 1
    /\ normalized_logs = <<>>
    /\ result = <<>>
    /\ snapshot = NoSnapshot
    /\ last = NoTrace
    /\ injected = 0
    /\ second = NoSecond

Init == \E table \in BatchTables : Construct(table)

\* normalize_logs is called: lines 267-269
Enter(logs) ==
    /\ pc = "idle"
    /\ stats.processed + Len(logs) <= MaxRecords
    /\ pc' = "loop"
    /\ input_logs' = logs
    /\ i' = 1
    /\ normalized_logs' = <<>>
    /\ UNCHANGED <<mappings, stats, heap, clock, result, snapshot, last,
                   injected, second>>

\* lines 276-285 for the outcome of the call of line 274
Absorb(out) ==
    /\ stats' =
          IF out.exc # "" THEN [out.stats EXCEPT !.errors = @ + 1]
          ELSE IF out.ret # <<>> THEN [out.stats EXCEPT !.normalized = @ + 1]
          ELSE [out.stats EXCEPT !.errors = @ + 1]
    /\ normalized_logs' =
          IF out.exc = "" /\ out.ret # <<>>
          THEN Append(normalized_logs, out.ret)
          ELSE normalized_logs
    /\ heap' = out.heap
    /\ clock' = out.clock
    /\ last' = out.trace
    /\ injected' =
          IF out.exc = "" /\ out.ret # <<>>
             /\ ~HasKey(out.trace.p3, K("timestamp"))
          THEN injected + 1
          ELSE injected

\* one turn of the loop of normalize_logs: lines 271-285
Iterate ==
    /\ pc = "loop"
    /\ i <= Len(input_logs)
    /\ Absorb(_normalize_single_log(input_logs[i], mappings,
                  [stats EXCEPT !.processed = @ + 1], heap, clock))
    /\ i' = i + 1
    /\ UNCHANGED <<mappings, pc, input_logs, result, snapshot, second>>

\* normalize_logs returns its list (line 287); its locals are gone
Return ==
    /\ pc = "loop"
    /\ i > Len(input_logs)
    /\ pc' = "idle"
    /\ result' = normalized_logs
    /\ input_logs' = <<>>
    /\ i' = 1
    /\ normalized_logs' = <<>>
    /\ UNCHANGED <<mappings, stats, heap, clock, snapshot, last, injected,
                   second>>

\* get_statistics: self.stats.copy() copies the five entries of stats, the
\* reference to the sources dict among them
get_statistics ==
    /\ pc = "idle"
    /\ snapshot' = [taken |-> TRUE, processed |-> stats.processed,
                    normalized |-> stats.normalized, errors |-> stats.errors,
                    warnings |-> stats.warnings, sources |-> stats.sources]
    /\ UNCHANGED <<mappings, stats, heap, clock, pc, input_logs, i,
                   normalized_logs, result, last, injected, second>>

Next ==
    \/ \E logs \in Batches : Enter(logs)
    \/ Iterate
    \/ Return
    \/ get_statistics

\* a normalizer given batches, and asked for its statistics between them
Spec == Init /\ [][Next]_vars

----------------------------------------------------------------------------
(* One record under every small mapping file *)

\* most items of a generated record, its log_source apart
MaxFields == 2

s_x == <<"x">>
s_y == <<"y">>
s_bob == <<"b", "o", "b">>
s_notadict == <<"n", "o", "t", "a", "d", "i", "c", "t">>
s_zero == <<"0">>

\* the items a record is made of
GenItems ==
    { <<K("a"), VStr(s_x)>>,
      <<K("b"), VStr(s_y)>>,
      <<K("user"), VDict(<< <<K("name"), VStr(s_bob)>> >>)>>,
      <<K("user"), VStr(s_notadict)>>,
      <<<<"user", "name">>, VStr(s_x)>>,
      <<K("source_port"), VInt(0)>>,
      <<K("source_port"), VStr(s_zero)>>,
      <<K("source_port"), VStr(<<"4", "4", "3">>)>>,
      <<K("ingestion_time"), VStr(s_t0)>> }

\* the item sequences of at most MaxFields items, keys distinct, in every
\* order
GenFields ==
    UNION { {s \in [1..n -> GenItems] :
                \A j, k \in 1..n : j # k => s[j][1] # s[k][1]}
            : n \in 0..MaxFields }

\* the objects generated: of source "fw", or of no source
GenLogs ==
    {VDict(kv) : kv \in GenFields}
    \cup {VDict(<< <<K("log_source"), VStr(s_fw)>> >> \o kv) : kv \in GenFields}

\* the raw keys a default mapping may hold and the normalized names each
\* may get
DefaultTargets ==
    (K("a") :> {K("message"), K("detail"), K("ingestion_time")})
    @@ (K("b") :> {K("message")})
    @@ (<<"user", "name">> :> {K("message")})

\* the same for the mapping of the source "fw"
FwTargets ==
    (K("a") :> {K("message")})
    @@ (<<"user", "name">> :> {K("message")})

\* the mappings that give some of the keys of targets one of their names
MapsOver(targets) ==
    UNION { {m \in [ks -> UNION {targets[k] : k \in ks}] :
                \A k \in ks : m[k] \in targets[k]}
            : ks \in SUBSET DOMAIN targets }

\* the mapping files with a source "fw" and a default source
GenTables ==
    {(s_fw :> S) @@ (s_default :> D) :
        S \in MapsOver(FwTargets), D \in MapsOver(DefaultTargets)}

InitSingle == \E table \in GenTables : Construct(table)

\* a fresh normalizer is given a batch of one object
EnterOne == \E log \in GenLogs : stats.processed = 0 /\ Enter(<<log>>)

\* what a second normalization gave: the dict returned, or the exception
Second(out) == [taken |-> TRUE, ret |-> out.ret, exc |-> out.exc]

\* the effect of one more _normalize_single_log call whose outcome is out
Again(out) ==
    /\ second' = Second(out)
    /\ stats' = out.stats
    /\ heap' = out.heap
    /\ clock' = out.clock
    /\ last' = out.trace

\* lines 209-265 on a normalizer whose mapping for the record's source is
\* its default mapping
NormalizeAsDefault(log_data, log_source, default_mapping) ==
    NormalizeWith(log_data, log_source, default_mapping, default_mapping,
                  stats,
                  [heap EXCEPT ![stats.sources] = TrackSource(@, log_source)],
                  clock)

\* the record normalize_logs returned is normalized a second time, the
\* default mapping being both its source and its default mapping
Renormalize ==
    /\ pc = "idle"
    /\ result # <<>>
    /\ ~second.taken
    /\ Again(NormalizeAsDefault(VDict(result[1]),
                                GetItem(result[1], K("log_source")),
                                MappingGet(mappings, VStr(s_default))))
    /\ UNCHANGED <<mappings, pc, input_logs, i, normalized_logs, result,
                   snapshot, injected>>

NextSingle ==
    \/ EnterOne
    \/ Iterate
    \/ Return
    \/ Renormalize

\* a fresh normalizer given one object, whose output is normalized again
SpecSingle == InitSingle /\ [][NextSingle]_vars

----------------------------------------------------------------------------
(* Properties *)

\* the loop of normalize_logs has run to the end of its argument
LoopDone == pc = "loop" /\ i > Len(input_logs)

\* a turn of the loop is being taken
Turn == pc = "loop" /\ i' = i + 1

\* the entries of logs that are no objects
NonObjects(logs) == {j \in 1..Len(logs) : ~IsDict(logs[j])}

\* the log_source of an object: its own, "default" when it has none
LogSourceOf(r) ==
    IF HasKey(r.kv, K("log_source")) THEN GetItem(r.kv, K("log_source"))
    ELSE VStr(s_default)

\* the count sources holds for x, 0 when it holds none
Count(sources, x) == IF x \in DOMAIN sources THEN sources[x] ELSE 0

RECURSIVE SumOver(_, _)
SumOver(sources, keys) ==
    IF keys = {} THEN 0
    ELSE LET x == CHOOSE k \in keys : TRUE
         IN  sources[x] + SumOver(sources, keys \ {x})

\* the sum of all the counts of stats['sources']
SumSources == SumOver(heap[stats.sources], DOMAIN heap[stats.sources])

\* the last record the loop appended
LastOutput == normalized_logs[Len(normalized_logs)]

\* the source and the default mapping of the call `last` records
DefaultOfLast == MappingGet(mappings, VStr(s_default))
SourceOfLast ==
    IF second.taken THEN DefaultOfLast ELSE MappingGet(mappings, last.log_source)

\* an object that _normalize_single_log returns a record for
Normalizes(r) ==
    IsDict(r) /\ _normalize_single_log(r, mappings, stats, heap, clock).exc = ""

\* C1 (as claimed): when a fresh normalizer has run through a batch of n
\* entries, k of them no objects and the others objects that normalize, the
\* output holds n - k records, processed is n and errors is k.
C1_BatchIsolation ==
    (/\ LoopDone
     /\ stats.processed = Len(input_logs)
     /\ \A j \in 1..Len(input_logs) :
           IsDict(input_logs[j]) => Normalizes(input_logs[j]))
    => /\ Len(normalized_logs)
            = Len(input_logs) - Cardinality(NonObjects(input_logs))
       /\ stats.errors = Cardinality(NonObjects(input_logs))

\* C2 (as claimed): a dotted key d of the source mapping whose walk through
\* the record finds a value makes the source pass write the name d is mapped
\* to, with that value converted when no other key is mapped to the name.
C2_NestedExtraction ==
    (last.stage = "done" /\ ~second.taken)
    => \A d \in DOMAIN SourceOfLast :
          (Len(d) > 1 /\ Walk(last.raw, d) # VNone)
          => /\ HasKey(last.p1, SourceOfLast[d])
             /\ (\A r \in DOMAIN SourceOfLast :
                    (r # d /\ HasKey(last.raw.kv, r))
                    => SourceOfLast[r] # SourceOfLast[d])
                => GetItem(last.p1, SourceOfLast[d])
                     = _apply_type_conversion(SourceOfLast[d], Walk(last.raw, d))

\* a raw key of the record that the default pass may have written name from
DefaultOrigin(r, name) ==
    /\ HasKey(last.raw.kv, r)
    /\ r \notin DOMAIN SourceOfLast
    /\ r \in DOMAIN DefaultOfLast
    /\ DefaultOfLast[r] = name

\* C3: what the source pass wrote the default pass leaves as it is, and a
\* name the default pass adds comes from a raw key the source mapping does
\* not hold; so the record {log_source: fw, a: x}, with a mapped to message
\* by the source and to detail by the default mapping, has message and no
\* detail.
C3_SourceWins ==
    last.stage = "done"
    => /\ \A j \in 1..Len(last.p1) :
             /\ HasKey(last.p2, last.p1[j][1])
             /\ GetItem(last.p2, last.p1[j][1]) = last.p1[j][2]
       /\ \A name \in DictKeys(last.p2) \ DictKeys(last.p1) :
             \E r \in DOMAIN DefaultOfLast : DefaultOrigin(r, name)
       /\ \A r \in DOMAIN SourceOfLast \cap DOMAIN DefaultOfLast :
             (/\ HasKey(last.raw.kv, r)
              /\ HasKey(last.p3, DefaultOfLast[r])
              /\ DefaultOfLast[r] # SourceOfLast[r])
             => \/ \E q \in DOMAIN DefaultOfLast : DefaultOrigin(q, DefaultOfLast[r])
                \/ \E q \in DOMAIN SourceOfLast :
                      HasKey(last.raw.kv, q) /\ SourceOfLast[q] = DefaultOfLast[r]
                \/ HasKey(last.raw.kv, DefaultOfLast[r])

\* C3 witness: the source pass wrote message from a, and the default mapping
\* gives the record's b the same name
C3_Witness ==
    /\ last.stage = "done"
    /\ ~second.taken
    /\ HasKey(last.raw.kv, K("a"))
    /\ HasKey(last.raw.kv, K("b"))
    /\ HasKey(last.p1, K("message"))
    /\ K("a") \in DOMAIN SourceOfLast
    /\ K("b") \notin DOMAIN SourceOfLast
    /\ K("b") \in DOMAIN DefaultOfLast
    /\ DefaultOfLast[K("b")] = K("message")
    /\ K("a") \in DOMAIN DefaultOfLast
    /\ DefaultOfLast[K("a")] = K("detail")
    /\ GetItem(last.p2, K("message")) = VStr(s_x)
    /\ ~HasKey(last.p3, K("detail"))

\* C4 (as claimed): after any batch the counts of stats['sources'] add up to
\* stats['processed'].
C4_SumIsProcessed == pc = "idle" => SumSources = stats.processed

\* the entry the turn being taken normalizes is counted under its source
Counted(r) == IsDict(r) /\ Hashable(LogSourceOf(r))

\* a turn of the loop adds one to the count of the entry's log_source when
\* the entry is an object whose log_source can be hashed, and leaves every
\* other count, and every count otherwise, as it was
C4_Turn ==
    Turn
    => /\ \A x \in DOMAIN heap[stats.sources] \cup DOMAIN heap'[stats'.sources] :
             Count(heap'[stats'.sources], x)
               = Count(heap[stats.sources], x)
                 + (IF Counted(input_logs[i]) /\ x = LogSourceOf(input_logs[i])
                    THEN 1 ELSE 0)
       /\ Counted(input_logs[i])
          => LogSourceOf(input_logs[i]) \in DOMAIN heap'[stats'.sources]

\* C4 (amended): every processed object whose log_source can be hashed adds
\* one to stats['sources'][log_source], whether or not its normalization
\* then succeeds; an entry that is no object, or whose log_source is a list
\* or an object, adds to no count; so the counts never add up to more than
\* stats['processed'].
C4_CountsObjects == [][C4_Turn]_vars /\ [](SumSources <= stats.processed)

\* C4 witness: an object was counted though its normalization raised, and an
\* entry that is no object was not
C4_Witness ==
    /\ last.stage = "rejected"
    /\ stats.processed = 2
    /\ stats.normalized = 0
    /\ SumSources = 1

\* C5 (as claimed): no type conversion raises, and no object is dropped
\* because of one.
C5_NeverRaises ==
    /\ \A c \in last.calls : ~IsRaise(c.result)
    /\ last.stage # "raised"

\* C6 (as claimed): the record a second normalization gives has the keys of
\* the first and, ingestion_time apart, the same value under each.
C6_Idempotent ==
    second.taken
    => /\ second.exc = ""
       /\ DictKeys(second.ret) = DictKeys(result[1])
       /\ \A k \in DictKeys(result[1]) \ {K("ingestion_time")} :
             GetItem(second.ret, k) = GetItem(result[1], k)

\* the snapshot with its reference followed
SnapshotView ==
    [processed |-> snapshot.processed, normalized |-> snapshot.normalized,
     errors |-> snapshot.errors, warnings |-> snapshot.warnings,
     sources |-> heap[snapshot.sources]]

\* C7 (as claimed): while the caller holds a snapshot, nothing the normalizer
\* does changes any of its fields, its per-source counts among them.
C7_SnapshotFrozen ==
    [][(snapshot.taken /\ snapshot' = snapshot) => SnapshotView' = SnapshotView]_vars

\* a turn of the loop on an object whose passes leave no timestamp key
\* appends a record with the timestamp read from the clock and adds one to
\* warnings; any other turn leaves warnings as it was, and a record it
\* appends has the timestamp the passes gave it
C8_Turn ==
    Turn
    => IF last'.stage = "done" /\ ~HasKey(last'.p3, K("timestamp"))
       THEN /\ stats'.warnings = stats.warnings + 1
            /\ Len(normalized_logs') = Len(normalized_logs) + 1
            /\ GetItem(normalized_logs'[Len(normalized_logs')], K("timestamp"))
                 = NowStr(clock)
       ELSE /\ stats'.warnings = stats.warnings
            /\ last'.stage = "done"
               => /\ Len(normalized_logs') = Len(normalized_logs) + 1
                  /\ GetItem(normalized_logs'[Len(normalized_logs')], K("timestamp"))
                       = GetItem(last'.p3, K("timestamp"))

\* C8: an object whose passes produce no timestamp key gets one injected and
\* adds exactly one to warnings, an object whose passes produce one leaves
\* warnings alone; so warnings is the number of returned records whose
\* timestamp was injected.
C8_DefaultTimestamp == [][C8_Turn]_vars /\ [](stats.warnings = injected)

\* C8 witness: of two objects processed one had its timestamp injected, the
\* other brought a timestamp key whose value is null
C8_Witness ==
    /\ LoopDone
    /\ Len(normalized_logs) = 2
    /\ stats.warnings = 1
    /\ last.stage = "done"
    /\ HasKey(last.p3, K("timestamp"))
    /\ GetItem(last.p3, K("timestamp")) = VNone

\* C9: a record normalize_logs appends has an ingestion_time, the text of
\* the clock tick read last, and it is none of the values the record gave
\* for ingestion_time, as a key of its own or through a mapping; the same
\* holds of a second normalization.
C9_IngestionTime ==
    /\ (pc = "loop" /\ i > 1 /\ last.stage = "done")
       => /\ HasKey(LastOutput, K("ingestion_time"))
          /\ GetItem(LastOutput, K("ingestion_time")) = NowStr(clock - 1)
          /\ \A c \in last.calls :
                c.field = K("ingestion_time")
                => GetItem(LastOutput, K("ingestion_time")) # c.result
    /\ (second.taken /\ second.exc = "")
       => /\ HasKey(second.ret, K("ingestion_time"))
          /\ GetItem(second.ret, K("ingestion_time")) = NowStr(clock - 1)

\* C9 witness: the record gave two values for ingestion_time, one under the
\* key itself and one through the mapping of its key a
C9_Witness ==
    /\ pc = "loop"
    /\ i > 1
    /\ last.stage = "done"
    /\ Cardinality({c \in last.calls : c.field = K("ingestion_time")
                                       /\ c.result # VNone}) = 2

\* a decimal string: digits, after a minus sign or not
IsDecimal(s) ==
    /\ s # <<>>
    /\ IF s[1] = "-"
       THEN Len(s) > 1 /\ \A j \in 2..Len(s) : IsDigit(s[j])
       ELSE \A j \in 1..Len(s) : IsDigit(s[j])

\* the integer a decimal string writes
DecimalVal(s) ==
    IF s[1] = "-" THEN 0 - BodyVal(Tail(s), 0) ELSE BodyVal(s, 0)

\* the integer a port value stands for: an int, or a decimal string
PortInput(v) == IF v.t = "int" THEN v.n ELSE DecimalVal(v.s)

\* C10 (as claimed): the conversion of a port field given an integer or a
\* decimal string is that integer when it is in 0..65535 and null otherwise.
C10_PortRange ==
    \A c \in last.calls :
        (/\ c.field \in port_fields
         /\ \/ c.value.t = "int"
            \/ (c.value.t = "str" /\ IsDecimal(c.value.s)))
        => c.result = IF 0 <= PortInput(c.value) /\ PortInput(c.value) <= 65535
                      THEN VInt(PortInput(c.value))
                      ELSE VNone

====
